---- MODULE Spec2Model ----
(***************************************************************************)
(* One call of run(module_run) of ai_researcher_agent/run.py: construction *)
(* of the ResearcherAgent (tools and CrewAI agents), validation of the     *)
(* inputs against schemas.InputSchema, creation of the three tasks, the    *)
(* sequential crew kickoff and the shaping of its result.                  *)
(*                                                                         *)
(* Python values are encoded as strings and records:                       *)
(*   Missing  a key that is not in the input dict                          *)
(*   PyNone   the Python value None                                        *)
(*   any other string is the Python str with that text                     *)
(***************************************************************************)
EXTENDS Integers, Sequences, FiniteSets, TLC

\* ------------------------------------------------------------ bounds
\* integers offered for max_sources are -MaxSourcesBound..MaxSourcesBound
MaxSourcesBound == 1
\* the wall clock runs from 0 to MaxClock ticks
MaxClock == 3
\* clock ticks per second: strftime("%Y%m%d_%H%M%S") has a resolution of 1 s
TicksPerSecond == 2

\* ------------------------------------------------------------ values
Missing == "<missing>"
PyNone == "<None>"
PyTrue == "<True>"
PyFalse == "<False>"

\* default of InputSchema.max_sources
DefaultMaxSources == 5

\* an int-typed input: t is "missing", "none", "int" or "str" (a str that is
\* no number); n is the integer when t = "int"
IntIn(t, n) == [t |-> t, n |-> n]

TopicInputs == {Missing, PyNone, "", "AI agents"}
ObjectiveInputs == {Missing, "survey"}
FocusInputs == {Missing, "tooling"}
MaxSourcesInputs ==
    {IntIn("missing", 0), IntIn("none", 0), IntIn("str", 0)}
        \cup {IntIn("int", n) : n \in -MaxSourcesBound..MaxSourcesBound}
CitationInputs == {Missing, PyFalse, "maybe"}

\* module_run.inputs given as a dict
DictInputs ==
    [kind : {"dict"},
     research_topic : [topic : TopicInputs,
                       research_objective : ObjectiveInputs,
                       specific_focus : FocusInputs],
     max_sources : MaxSourcesInputs,
     include_citations : CitationInputs]

\* ------------------------------------------------------------ schemas.py
\* a required str field: present and a str
RequiredStrOk_accepts_missing(v) == v # PyNone
RequiredStrOk(v) == v # Missing /\ v # PyNone

\* Optional[str] = Field(None): an absent key takes the default None
OptionalStr(v) == IF v = Missing THEN PyNone ELSE v

\* Optional[int] = Field(5): absent takes the default, None stays None, an int
\* is kept as it is, a str that is no number is an error
OptionalIntOk(v) == v.t # "str"
OptionalInt(v) ==
    IF v.t = "missing" THEN IntIn("int", DefaultMaxSources)
    ELSE v

\* Optional[bool] = Field(True)
OptionalBoolOk(v) == v \in {Missing, PyNone, PyTrue, PyFalse}
OptionalBool(v) == IF v = Missing THEN PyTrue ELSE v

\* ResearchTopic(**d): raises ValidationError unless topic is a str
ResearchTopicOk(d) == RequiredStrOk(d.topic)
ResearchTopic(d) ==
    [topic |-> d.topic,
     research_objective |-> OptionalStr(d.research_objective),
     specific_focus |-> OptionalStr(d.specific_focus)]

\* InputSchema(**d)
InputSchemaOk(d) ==
    /\ ResearchTopicOk(d.research_topic)
    /\ OptionalIntOk(d.max_sources)
    /\ OptionalBoolOk(d.include_citations)
InputSchema(d) ==
    [kind |-> "InputSchema",
     research_topic |-> ResearchTopic(d.research_topic),
     max_sources |-> OptionalInt(d.max_sources),
     include_citations |-> OptionalBool(d.include_citations)]

\* module_run.inputs given as an InputSchema object, built by its constructor
ObjectInputs == {InputSchema(d) : d \in {x \in DictInputs : InputSchemaOk(x)}}

Requests == DictInputs \cup ObjectInputs

\* "no value yet", of the shape of an InputSchema
NoParams ==
    [kind |-> "<unset>",
     research_topic |-> [topic |-> Missing, research_objective |-> Missing,
                         specific_focus |-> Missing],
     max_sources |-> IntIn("missing", 0),
     include_citations |-> Missing]

\* ------------------------------------------------------------ run.py
NumStages == 3

\* ResearcherAgent.setup_tools
AllTools == {"search_tool", "file_read", "file_write"}
setup_tools == AllTools

\* ResearcherAgent.setup_agents: three agents, each with tools=[search_tool]
Agent(name, role) == [name |-> name, role |-> role, tools |-> {"search_tool"}]
setup_agents ==
    {Agent("keyword_researcher", "Expert Keyword Research Specialist"),
     Agent("search_analyst", "Search Results Analyst"),
     Agent("insights_compiler", "Research Insights Compiler")}

\* an f-string replacement field {v}: format(v, ""), which is "None" for None
\* and the text itself for a str
Format(v) == IF v = PyNone THEN "None" ELSE v

\* datetime.datetime.now().strftime("%Y%m%d_%H%M%S"): the clock cut to seconds
Strftime(now) == now \div TicksPerSecond

\* f'output-files/<stage>_{timestamp}.md'
OutputFile(stageName, timestamp) ==
    [dir |-> "output-files/", stage |-> stageName, sep |-> "_",
     ts |-> timestamp, ext |-> ".md"]

InstructionsHead ==
    "Analyze the following topic and identify potential keywords and search phrases: TOPIC: \""
InstructionsTail ==
    "\" 1. Break down the topic into main concepts 2. Generate primary keywords for each concept 3. Identify related terms and synonyms 4. Consider different search intents 5. List at least 5 potential search phrases"

\* the description of task_1, as the sequence of its literal and substituted parts
Description1(research_topic) ==
    << InstructionsHead,
       Format(research_topic.topic),
       "\" RESEARCH OBJECTIVE: \"",
       Format(research_topic.research_objective),
       "\" SPECIFIC FOCUS: \"",
       Format(research_topic.specific_focus),
       InstructionsTail >>

Task(id, description, agent, context, output_file) ==
    [id |-> id, description |-> description, agent |-> agent,
     context |-> context, output_file |-> output_file]

task_1(research_topic, timestamp) ==
    Task("task_1", Description1(research_topic), "keyword_researcher", << >>,
         OutputFile("keyword_analysis", timestamp))
task_2(timestamp) ==
    Task("task_2",
         << "Evaluate the effectiveness of the proposed keywords by analyzing search results: 1. Test each main keyword/phrase identified 2. Analyze the relevance of returned results 3. Identify gaps or irrelevant results 4. Suggest modifications to improve search accuracy" >>,
         "search_analyst", << "task_1" >>,
         OutputFile("search_analysis", timestamp))
task_3(context, timestamp) ==
    Task("task_3",
         << "Compile final keyword recommendations and search strategy: 1. Synthesize findings from keyword research and search analysis 2. Create a prioritized list of recommended search terms 3. Group related terms and phrases 4. Provide specific recommendations for different search objectives" >>,
         "insights_compiler", context,
         OutputFile("final_recommendations", timestamp))

\* ResearcherAgent.create_tasks; `now` is what datetime.datetime.now() returns
create_tasks_swapped(research_topic, now) ==
    << task_2(Strftime(now)), task_1(research_topic, Strftime(now)),
       task_3(<< "task_2" >>, Strftime(now)) >>
create_tasks_fan_in(research_topic, now) ==
    << task_1(research_topic, Strftime(now)), task_2(Strftime(now)),
       task_3(<< "task_1", "task_2" >>, Strftime(now)) >>
create_tasks_clock_per_task(research_topic, now) ==
    << task_1(research_topic, Strftime(now)), task_2(Strftime(now)),
       task_3(<< "task_2" >>, Strftime(now + TicksPerSecond)) >>
create_tasks(research_topic, now) ==
    LET timestamp == Strftime(now)
    IN  << task_1(research_topic, timestamp),
           task_2(timestamp),
           task_3(<< "task_2" >>, timestamp) >>

\* Crew(agents=[...], tasks=tasks, verbose=True, process=Process.sequential)
Crew(tasks) ==
    [agents |-> << "keyword_researcher", "search_analyst", "insights_compiler" >>,
     tasks |-> tasks,
     process |-> "sequential"]
NoCrew == [agents |-> << >>, tasks |-> << >>, process |-> "<unset>"]

\* ---- what crew.kickoff() may return
TaskKeys == {"task_1", "task_2", "task_3"}
Absent == [t |-> "absent", v |-> ""]
EmptyDict == [t |-> "dict", v |-> ""]
IsMapping(x) == x.t = "dict"
\* the values a key of a returned dict may hold: mappings, a str, None
StageValues ==
    {EmptyDict, [t |-> "dict", v |-> "a"], [t |-> "dict", v |-> "b"],
     [t |-> "str", v |-> "text"], [t |-> "none", v |-> ""]}
\* a dict with any of the three keys, or an object without a get method (a str,
\* a CrewOutput)
KickoffReturns ==
    [t : {"dict"}, items : [TaskKeys -> StageValues \cup {Absent}]]
        \cup [t : {"str", "CrewOutput"}, items : [TaskKeys -> {Absent}]]
NoResult == [t |-> "<unset>", items |-> [k \in TaskKeys |-> Absent]]

\* dict.get(key, default)
Get(d, key, default) ==
    IF d.items[key] = Absent THEN default ELSE d.items[key]

\* hasattr(result, "get"): result.get(...) raises AttributeError otherwise
HasGet(r) == r.t = "dict"

AllEmpty ==
    [keyword_analysis |-> EmptyDict, search_analysis |-> EmptyDict,
     final_recommendations |-> EmptyDict]
NoReturn ==
    [keyword_analysis |-> Absent, search_analysis |-> Absent,
     final_recommendations |-> Absent]

\* the try block of ResearcherAgent.research and its except branch
ShapeRaises(r) == ~HasGet(r)
Shape(r) ==
    IF ShapeRaises(r) THEN AllEmpty
    ELSE [keyword_analysis |-> Get(r, "task_1", EmptyDict),
          search_analysis |-> Get(r, "task_2", EmptyDict),
          final_recommendations |-> Get(r, "task_3", EmptyDict)]

\* the statements of run(), in order
RunSteps_validate_first == << "validate", "construct", "research" >>
RunSteps == << "construct", "validate", "research" >>

\* ------------------------------------------------------------ state
VARIABLES
    inputs,        \* module_run.inputs
    clock,         \* the wall clock, in ticks
    step,          \* index into RunSteps of the statement of run() to execute
    status,        \* "running", "returned" or "raised"
    error,         \* the kind of the exception run() raised, "" if none
    tools,         \* the tool clients constructed by setup_tools
    agents,        \* the agents constructed by setup_agents
    input_params,  \* the validated InputSchema
    crew,          \* the Crew built by research(): tasks, agents, process
    rpc,           \* position inside research(): "create", "kickoff",
                   \* "raising", "shaping", "done"
    stage,         \* per position in crew.tasks: "pending", "running", "done", "failed"
    started,       \* the stage names in the order their execution began
    ctx,           \* per position: the tasks whose output was passed as context
    files,         \* the artifact files written
    result,        \* what crew.kickoff() returned
    returned,      \* what run() returned
    log            \* logger.error messages

vars == << inputs, clock, step, status, error, tools, agents, input_params,
           crew, rpc, stage, started, ctx, files, result, returned, log >>

Stages == 1..NumStages

Init ==
    /\ inputs \in Requests
    /\ clock = 0
    /\ step = 1
    /\ status = "running"
    /\ error = ""
    /\ tools = {}
    /\ agents = {}
    /\ input_params = NoParams
    /\ crew = NoCrew
    /\ rpc = "create"
    /\ stage = [i \in Stages |-> "pending"]
    /\ started = << >>
    /\ ctx = [i \in Stages |-> {}]
    /\ files = {}
    /\ result = NoResult
    /\ returned = NoReturn
    /\ log = << >>

AtStep(name) == status = "running" /\ step <= Len(RunSteps) /\ RunSteps[step] = name

\* time passes
Tick ==
    /\ clock < MaxClock
    /\ clock' = clock + 1
    /\ UNCHANGED << inputs, step, status, error, tools, agents, input_params,
                    crew, rpc, stage, started, ctx, files, result, returned, log >>

\* researcher = ResearcherAgent(module_run): setup_tools(), setup_agents()
Construct ==
    /\ AtStep("construct")
    /\ tools' = setup_tools
    /\ agents' = setup_agents
    /\ step' = step + 1
    /\ UNCHANGED << inputs, clock, status, error, input_params, crew, rpc,
                    stage, started, ctx, files, result, returned, log >>

\* if isinstance(module_run.inputs, dict): input_params = InputSchema(**inputs)
\* else: input_params = module_run.inputs
Validate ==
    /\ AtStep("validate")
    /\ IF inputs.kind = "dict" /\ ~InputSchemaOk(inputs)
       THEN /\ status' = "raised"
            /\ error' = "ValidationError"
            /\ UNCHANGED << step, input_params >>
       ELSE /\ input_params' = IF inputs.kind = "dict" THEN InputSchema(inputs)
                                                      ELSE inputs
            /\ step' = step + 1
            /\ UNCHANGED << status, error >>
    /\ UNCHANGED << inputs, clock, tools, agents, crew, rpc, stage, started,
                    ctx, files, result, returned, log >>

\* research(): tasks = self.create_tasks(research_topic); crew = Crew(...);
\* crew.kickoff() is entered
ResearchBegin ==
    /\ AtStep("research")
    /\ rpc = "create"
    /\ crew' = Crew(create_tasks(input_params.research_topic, clock))
    /\ rpc' = "kickoff"
    /\ UNCHANGED << inputs, clock, step, status, error, tools, agents,
                    input_params, stage, started, ctx, files, result, returned, log >>

\* ---- the crew executor (crewai, outside this repository)
Range(s) == {s[k] : k \in 1..Len(s)}

\* under Process.sequential the tasks run one at a time in list order
CanStart(i) ==
    crew.process = "sequential" =>
        /\ \A j \in 1..(i - 1) : stage[j] = "done"
        /\ \A j \in Stages : stage[j] # "running"

StartStage(i) ==
    /\ status = "running" /\ rpc = "kickoff"
    /\ stage[i] = "pending"
    /\ CanStart(i)
    /\ stage' = [stage EXCEPT ![i] = "running"]
    /\ started' = Append(started, crew.tasks[i].output_file.stage)
    /\ ctx' = [ctx EXCEPT ![i] = Range(crew.tasks[i].context)]
    /\ UNCHANGED << inputs, clock, step, status, error, tools, agents,
                    input_params, crew, rpc, files, result, returned, log >>

\* the stage's output is written to its output_file
CompleteStage(i) ==
    /\ status = "running" /\ rpc = "kickoff"
    /\ stage[i] = "running"
    /\ stage' = [stage EXCEPT ![i] = "done"]
    /\ files' = files \cup {crew.tasks[i].output_file}
    /\ UNCHANGED << inputs, clock, step, status, error, tools, agents,
                    input_params, crew, rpc, started, ctx, result, returned, log >>

\* the model or a tool fails during the stage: kickoff() raises
FailStage(i) ==
    /\ status = "running" /\ rpc = "kickoff"
    /\ stage[i] = "running"
    /\ stage' = [stage EXCEPT ![i] = "failed"]
    /\ rpc' = "raising"
    /\ UNCHANGED << inputs, clock, step, status, error, tools, agents,
                    input_params, crew, started, ctx, files, result, returned, log >>

\* result = crew.kickoff(), once every task is done
KickoffReturn ==
    /\ status = "running" /\ rpc = "kickoff"
    /\ \A i \in Stages : stage[i] = "done"
    /\ \E r \in KickoffReturns : result' = r
    /\ rpc' = "shaping"
    /\ UNCHANGED << inputs, clock, step, status, error, tools, agents,
                    input_params, crew, stage, started, ctx, files, returned, log >>

\* ---- back in run.py
\* crew.kickoff() stands before the try: its exception leaves research() and run()
SwallowKickoffError ==
    /\ status' = "returned"
    /\ returned' = AllEmpty
    /\ UNCHANGED error
OnKickoffError ==
    /\ status' = "raised"
    /\ error' = "StageExecutionError"
    /\ UNCHANGED returned

PropagateKickoffError ==
    /\ status = "running" /\ rpc = "raising"
    /\ OnKickoffError
    /\ rpc' = "done"
    /\ UNCHANGED << inputs, clock, step, tools, agents, input_params, crew,
                    stage, started, ctx, files, result, log >>

\* the try/except of research() and the return of run()
ShapeResult ==
    /\ status = "running" /\ rpc = "shaping"
    /\ returned' = Shape(result)
    /\ log' = IF ShapeRaises(result)
              THEN Append(log, "Failed to parse research results")
              ELSE log
    /\ status' = "returned"
    /\ rpc' = "done"
    /\ UNCHANGED << inputs, clock, step, error, tools, agents, input_params,
                    crew, stage, started, ctx, files, result >>

Next ==
    \/ Tick
    \/ Construct
    \/ Validate
    \/ ResearchBegin
    \/ \E i \in Stages : StartStage(i)
    \/ \E i \in Stages : CompleteStage(i)
    \/ \E i \in Stages : FailStage(i)
    \/ KickoffReturn
    \/ PropagateKickoffError
    \/ ShapeResult

Spec == Init /\ [][Next]_vars

\* ------------------------------------------------------------ properties
StageOrder == << "keyword_analysis", "search_analysis", "final_recommendations" >>
ResultFields == {"keyword_analysis", "search_analysis", "final_recommendations"}

\* the positions in crew.tasks of the stage with this name
PositionsOf(name) ==
    {i \in 1..Len(crew.tasks) : crew.tasks[i].output_file.stage = name}

IsPrefix(s, t) == Len(s) <= Len(t) /\ \A k \in 1..Len(s) : s[k] = t[k]

\* C1: whenever run() has returned, its result has exactly the three keys
\* keyword_analysis, search_analysis, final_recommendations and each value is a
\* mapping, whatever crew.kickoff() returned.
C1_ResultIsThreeMappings ==
    status = "returned" =>
        /\ DOMAIN returned = ResultFields
        /\ \A k \in ResultFields : IsMapping(returned[k])

TopicMissing == inputs.kind = "dict" /\ inputs.research_topic.topic = Missing

\* C2: a request dict whose research_topic has no topic never gets past
\* validation: run() does not return, the only exception it raises is a
\* ValidationError, and no task is created, no stage started, no file written.
C2_MissingTopicFailsBeforeStages ==
    TopicMissing =>
        /\ status # "returned"
        /\ status = "raised" => error = "ValidationError"
        /\ input_params = NoParams
        /\ crew = NoCrew
        /\ started = << >>
        /\ \A i \in Stages : stage[i] = "pending"
        /\ files = {}
C2_Witness ==
    TopicMissing /\ status = "raised" /\ error = "ValidationError"

\* C3: the stages start in the order keyword_analysis, search_analysis,
\* final_recommendations, at most one stage is executing at any time, and a
\* stage has started only if the stage before it is done.
C3_StagesSequentialInOrder ==
    /\ IsPrefix(started, StageOrder)
    /\ Cardinality({i \in Stages : stage[i] = "running"}) <= 1
    /\ \A k \in 2..NumStages :
          \A i \in PositionsOf(StageOrder[k]) :
              stage[i] # "pending" =>
                  \A j \in PositionsOf(StageOrder[k - 1]) : stage[j] = "done"
C3_Witness ==
    /\ started = StageOrder
    /\ \A i \in Stages : stage[i] = "done"

SearchAnalysisFailed ==
    \E i \in PositionsOf("search_analysis") : stage[i] = "failed"

\* C4: once the search_analysis stage has failed, run() never returns a result,
\* the exception it raises is the stage execution error, the
\* final_recommendations stage is never started and its file is never written.
C4_Stage2FailurePropagates ==
    SearchAnalysisFailed =>
        /\ status # "returned"
        /\ returned = NoReturn
        /\ status = "raised" => error = "StageExecutionError"
        /\ rpc = "done" => status = "raised"
        /\ \A i \in PositionsOf("final_recommendations") : stage[i] = "pending"
        /\ \A k \in 1..Len(started) : started[k] # "final_recommendations"
        /\ \A f \in files : f.stage # "final_recommendations"
C4_Witness ==
    /\ SearchAnalysisFailed
    /\ status = "raised"
    /\ error = "StageExecutionError"

\* C5: when run() has returned and, of the three entries of the kickoff result,
\* only the one of search_analysis (task_2) is not a mapping, search_analysis is
\* the empty mapping and the other two fields are the values of their stages.
C5_PerFieldRecovery ==
    ( /\ status = "returned"
      /\ result.t = "dict"
      /\ IsMapping(result.items["task_1"])
      /\ IsMapping(result.items["task_3"])
      /\ ~IsMapping(result.items["task_2"]) )
    =>
        /\ returned.search_analysis = EmptyDict
        /\ returned.keyword_analysis = result.items["task_1"]
        /\ returned.final_recommendations = result.items["task_3"]

\* C6: the pipeline is a chain of exactly three tasks: the first has no context,
\* the context of the second is exactly the first, the context of the third is
\* exactly the second; a stage that has started was given exactly that context.
C6_LinearChain ==
    crew # NoCrew =>
        /\ Len(crew.tasks) = NumStages
        /\ \A i \in Stages : crew.tasks[i].output_file.stage = StageOrder[i]
        /\ crew.tasks[1].context = << >>
        /\ \A i \in 2..NumStages :
              crew.tasks[i].context = << crew.tasks[i - 1].id >>
        /\ \A i \in Stages :
              stage[i] # "pending" =>
                  ctx[i] = (IF i = 1 THEN {} ELSE {crew.tasks[i - 1].id})
        /\ crew.tasks[1].id \notin ctx[3]
C6_Witness ==
    /\ crew # NoCrew
    /\ stage[3] = "done"
    /\ ctx[3] = {"task_2"}

BothAbsent ==
    /\ input_params.kind # "<unset>"
    /\ input_params.research_topic.research_objective = PyNone
    /\ input_params.research_topic.specific_focus = PyNone

\* C7: when research_objective and specific_focus are both absent, the tasks are
\* created and the description of task_1 holds the topic and the fixed
\* instructions, the two absent fields rendered empty, and no part "None".
C7_NoNonePlaceholder ==
    (BothAbsent /\ AtStep("research") /\ rpc # "create") =>
        /\ crew # NoCrew
        /\ LET d == crew.tasks[1].description
           IN  /\ d[1] = InstructionsHead
               /\ d[2] = input_params.research_topic.topic
               /\ d[7] = InstructionsTail
               /\ d[4] = "" /\ d[6] = ""
               /\ \A k \in 1..Len(d) : d[k] # "None"

\* C8: the three output files are output-files/keyword_analysis_<ts>.md,
\* output-files/search_analysis_<ts>.md and
\* output-files/final_recommendations_<ts>.md for one and the same <ts>, and
\* every file written is one of them.
C8_SharedTimestamp ==
    crew # NoCrew =>
        \E ts \in 0..MaxClock :
            /\ \A i \in Stages :
                  crew.tasks[i].output_file = OutputFile(StageOrder[i], ts)
            /\ files \subseteq {OutputFile(StageOrder[i], ts) : i \in Stages}
C8_Witness ==
    /\ Cardinality(files) = NumStages
    /\ \A f \in files : f.ts # Strftime(clock)

EmptyTopicOrBadMaxSources ==
    /\ inputs.kind = "dict"
    /\ \/ inputs.research_topic.topic \in {Missing, ""}
       \/ inputs.max_sources.t = "int" /\ inputs.max_sources.n <= 0

\* C9: a request dict whose topic is missing or empty, or whose max_sources is an
\* integer that is not positive, is never accepted: no InputSchema is built from
\* it, run() does not return and no stage runs.
C9_RejectsEmptyTopicAndNonPositiveMaxSources ==
    EmptyTopicOrBadMaxSources =>
        /\ input_params = NoParams
        /\ status # "returned"
        /\ status = "raised" => error = "ValidationError"
        /\ started = << >>

\* C10 as claimed: tools and agents exist only once validation has succeeded, and
\* a run that failed validation has constructed neither.
C10_ValidateBeforeConstruct ==
    /\ (tools # {} \/ agents # {}) => input_params # NoParams
    /\ error = "ValidationError" => (tools = {} /\ agents = {})

\* C10 amended: run() constructs the tools and agents, then validates, then
\* builds the tasks, then executes: validation has an outcome only after all
\* tools and agents exist, the crew is built only after validation succeeded,
\* stages start only after the crew is built, and a run that failed validation
\* has all tools and agents but no crew, no stage started and no file.
C10_ConstructValidateBuildExecute ==
    /\ (input_params # NoParams \/ error = "ValidationError") =>
          /\ tools = {"search_tool", "file_read", "file_write"}
          /\ Cardinality(agents) = NumStages
    /\ crew # NoCrew => input_params # NoParams
    /\ started # << >> => crew # NoCrew
    /\ error = "ValidationError" =>
          (crew = NoCrew /\ started = << >> /\ files = {})
C10_Witness ==
    /\ status = "raised"
    /\ error = "ValidationError"
    /\ tools = {"search_tool", "file_read", "file_write"}
    /\ Cardinality(agents) = NumStages

====
